---- MODULE Spec2Model ----
(***************************************************************************)
(* A model of two utilities of the nuxt repository:                        *)
(*   - the vite logger shim, createViteLogger (src/unnamed/part_000);      *)
(*   - the module-id classifiers isVue, isJS and getLoader                 *)
(*     (src/packages/nuxt/src/core/utils/plugins.ts).                      *)
(* Text (messages, ids) is a sequence of tokens; every token stands for    *)
(* the literal characters of its string.                                   *)
(***************************************************************************)
EXTENDS Integers, Sequences, FiniteSets, TLC

VARIABLES
    env,             \* the universe of one run: loggers created, inputs the callers draw from
    DEBUG,           \* process.env.DEBUG is set
    ctx,             \* per logger: the values createViteLogger closes over
    duplicateCount,  \* module scope
    lastType,        \* module scope
    lastMsg,         \* module scope
    loggedErrors,    \* per logger
    warnedMessages,  \* per logger
    hasWarned,       \* per logger: viteLogger.hasWarned
    console,         \* what reached the external facilities: prints and screen clears
    last,            \* the call made by the latest step and what it was seen to do
    hist,            \* what an observer of all calls so far has recorded
    answer,          \* the value returned by the latest hasErrorLogged
    src,             \* the parts a module id was put together from
    moduleId,        \* the id handed to isVue, isJS and getLoader
    ret              \* what the classifiers returned for moduleId

loggerVars == <<env, DEBUG, ctx, duplicateCount, lastType, lastMsg, loggedErrors,
                warnedMessages, hasWarned, console, last, hist, answer>>

classifierVars == <<src, moduleId, ret>>

vars == <<loggerVars, classifierVars>>

-----------------------------------------------------------------------------
(* Bounds *)

MaxLoggers == 2
MaxCalls == 3
MaxFilterCalls == 2
MaxMsgLen == 2
MaxParams == 3
MaxExtLen == 4

-----------------------------------------------------------------------------
(* Text *)

SP == " "
NL == "\n"
REF == " referenced in"
NOTICE == "didn't resolve at build time, it will remain unchanged to be resolved at runtime"

\* tokens whose characters include a space
HasSpace(tok) == tok \in {SP, REF, NOTICE}
\* tokens made of white space only
IsBlank(tok) == tok \in {SP, NL}

RECURSIVE SeqsUpTo(_, _)
SeqsUpTo(S, n) ==
    IF n = 0 THEN {<<>>}
    ELSE LET shorter == SeqsUpTo(S, n - 1)
         IN  shorter \cup {Append(s, x) : s \in shorter, x \in S}

startsWith(s, p) == Len(s) >= Len(p) /\ SubSeq(s, 1, Len(p)) = p

includes(s, p) == \E i \in 0..(Len(s) - Len(p)) : SubSeq(s, i + 1, i + Len(p)) = p

trim(s) ==
    LET keep == {i \in 1..Len(s) : ~IsBlank(s[i])}
    IN  IF keep = {} THEN <<>>
        ELSE SubSeq(s, CHOOSE i \in keep : \A j \in keep : i <= j,
                       CHOOSE i \in keep : \A j \in keep : j <= i)

\* RUNTIME_RESOLVE_REF_RE = /^([^ ]+) referenced in/m : the places a match can
\* start (a line start followed by at least one character that is no space)
\* and, for a start, the end of the run of characters that are no space.
RefRunEnd(s, i) ==
    CHOOSE j \in i..Len(s) :
        /\ \A k \in i..j : ~HasSpace(s[k])
        /\ (j = Len(s) \/ HasSpace(s[j + 1]))

RefStarts(s) ==
    {i \in 1..Len(s) :
        /\ (i = 1 \/ s[i - 1] = NL)
        /\ ~HasSpace(s[i])
        /\ RefRunEnd(s, i) < Len(s)
        /\ s[RefRunEnd(s, i) + 1] = REF}

NoMatch == <<"<undefined>">>

\* s.match(RUNTIME_RESOLVE_REF_RE)?.[1] : group 1 of the leftmost match
RUNTIME_RESOLVE_REF_RE(s) ==
    IF RefStarts(s) = {} THEN NoMatch
    ELSE LET i == CHOOSE a \in RefStarts(s) : \A b \in RefStarts(s) : a <= b
         IN  SubSeq(s, i, RefRunEnd(s, i))

\* the files the public directories hold
PublicAssets == {<<"/pub.png">>}

resolveFromPublicAssets(ref) == ref \in PublicAssets

-----------------------------------------------------------------------------
(* Module ids: plugins.ts *)

RECURSIVE Split(_, _)
\* s.split(sep)
Split(s, sep) ==
    IF \A i \in 1..Len(s) : s[i] # sep THEN <<s>>
    ELSE LET i == CHOOSE k \in 1..Len(s) : s[k] = sep /\ \A j \in 1..(k - 1) : s[j] # sep
         IN  <<SubSeq(s, 1, i - 1)>> \o Split(SubSeq(s, i + 1, Len(s)), sep)

RECURSIVE Join(_, _)
Join(parts, sep) ==
    IF parts = <<>> THEN <<>>
    ELSE IF Len(parts) = 1 THEN parts[1]
    ELSE parts[1] \o <<sep>> \o Join(Tail(parts), sep)

endsWith(s, p) == Len(s) >= Len(p) /\ SubSeq(s, Len(s) - Len(p) + 1, Len(s)) = p

\* the longest prefix of s that holds no token of stop
PrefixWithout(s, stop) ==
    LET hits == {i \in 1..Len(s) : s[i] \in stop}
    IN  IF hits = {} THEN s
        ELSE SubSeq(s, 1, (CHOOSE i \in hits : \A j \in hits : i <= j) - 1)

cwd == <<"/", "work">>

RECURSIVE normalizeString(_, _)
\* node:path (posix): '.' and empty segments dropped, '..' drops the segment before it
normalizeString(segments, done) ==
    IF segments = <<>> THEN done
    ELSE LET seg == Head(segments)
         IN  IF seg = <<>> \/ seg = <<".">> THEN normalizeString(Tail(segments), done)
             ELSE IF seg = <<".", ".">>
             THEN normalizeString(Tail(segments),
                                  IF done = <<>> THEN done ELSE SubSeq(done, 1, Len(done) - 1))
             ELSE normalizeString(Tail(segments), Append(done, seg))

\* node:path (posix) resolve(path): absolute, normalized, no trailing slash
resolve(path) ==
    LET full == IF startsWith(path, <<"/">>) THEN path ELSE cwd \o <<"/">> \o path
    IN  <<"/">> \o Join(normalizeString(Split(full, "/"), <<>>), "/")

\* percent-encoding of the characters a file URL's path may not hold
encodePathChar(tok) ==
    CASE tok = "?" -> "%3F"
      [] tok = "#" -> "%23"
      [] OTHER -> tok

\* node:url pathToFileURL(id).href
pathToFileURL(path) ==
    LET resolved == resolve(path)
        slashed == IF endsWith(path, <<"/">>) /\ ~endsWith(resolved, <<"/">>)
                   THEN Append(resolved, "/") ELSE resolved
    IN  <<"file:", "/", "/">> \o [i \in 1..Len(slashed) |-> encodePathChar(slashed[i])]

decodeChar(tok) ==
    CASE tok = "%3F" -> "?"
      [] tok = "%23" -> "#"
      [] OTHER -> tok

decodeURIComponent(s) == [i \in 1..Len(s) |-> decodeChar(s[i])]

\* ufo parsePath: /([^#?]*)(\?[^#]*)?(#.*)?/
parsePath(input) ==
    LET pathname == PrefixWithout(input, {"#", "?"})
        rest == SubSeq(input, Len(pathname) + 1, Len(input))
        search == IF startsWith(rest, <<"?">>) THEN PrefixWithout(rest, {"#"}) ELSE <<>>
    IN  [pathname |-> pathname, search |-> search,
         hash |-> SubSeq(rest, Len(search) + 1, Len(rest))]

\* ufo parseURL of a url with a protocol: the host runs to the first of / ? #
parseURL(href) ==
    LET hostAndPath == SubSeq(href, 4, Len(href))
        host == PrefixWithout(hostAndPath, {"/", "?", "#"})
    IN  parsePath(SubSeq(hostAndPath, Len(host) + 1, Len(hostAndPath)))

\* ufo parseQuery, one parameter: /([^=]+)=?(.*)/ , the key and value decoded
parseParameter(parameter) ==
    LET starts == {i \in 1..Len(parameter) : parameter[i] # "="}
    IN  IF starts = {} THEN <<>>
        ELSE LET from == CHOOSE i \in starts : \A j \in starts : i <= j
                 tail == SubSeq(parameter, from, Len(parameter))
                 key == PrefixWithout(tail, {"="})
                 after == SubSeq(tail, Len(key) + 1, Len(tail))
                 value == IF startsWith(after, <<"=">>) THEN Tail(after) ELSE after
             IN  <<[key |-> decodeURIComponent(key), value |-> decodeURIComponent(value)]>>

RECURSIVE parseParameters(_)
parseParameters(parameters) ==
    IF parameters = <<>> THEN <<>>
    ELSE parseParameter(Head(parameters)) \o parseParameters(Tail(parameters))

\* ufo parseQuery(search): the parameters in their order; a key given once has
\* a string value, a key given several times the array of its values
parseQuery(search) ==
    parseParameters(Split(IF startsWith(search, <<"?">>) THEN Tail(search) ELSE search, "&"))

\* 'key' in query
inQuery(query, key) == \E i \in 1..Len(query) : query[i].key = key

\* query[key]: the values given for key, in order
valuesOf(query, key) ==
    LET F[i \in 0..Len(query)] ==
            IF i = 0 THEN <<>>
            ELSE IF query[i].key = key THEN Append(F[i - 1], query[i].value) ELSE F[i - 1]
    IN  F[Len(query)]

\* !!query[key]: a non-empty string or an array
truthy(query, key) ==
    LET values == valuesOf(query, key)
    IN  Len(values) > 1 \/ (Len(values) = 1 /\ values[1] # <<>>)

\* opts without a type
NoType == [given |-> FALSE, types |-> {}]
\* opts with the type array whose members are types
OfTypes(types) == [given |-> TRUE, types |-> types]
Undefined == <<"<undefined>">>

isAsyncWrapperNever(query) == FALSE

\* line 19
isAsyncWrapper(query) == truthy(query, <<"nuxt_component">>)

\* line 24
isMacro(search, query, opts) ==
    /\ truthy(query, <<"macro">>)
    /\ \/ search = <<"?", "macro", "=", "true">>
       \/ ~opts.given
       \/ <<"script">> \in opts.types

blockTypeIgnoringSetup(query) ==
    LET values == valuesOf(query, <<"type">>)
    IN  IF Len(values) = 1 THEN values[1] ELSE Undefined

\* line 29: a string, or Undefined for a value that is no string of opts.type
blockType(query) ==
    IF inQuery(query, <<"setup">>) THEN <<"script">>
    ELSE LET values == valuesOf(query, <<"type">>)
         IN  IF Len(values) = 1 THEN values[1] ELSE Undefined

\* lines 5-36
isVue(path, opts) ==
    LET search == parseURL(decodeURIComponent(pathToFileURL(path))).search
        query == parseQuery(search)
    IN  IF endsWith(path, <<".", "vue">>) /\ search = <<>> THEN TRUE
        ELSE IF search = <<>> THEN FALSE
        ELSE IF isAsyncWrapper(query) THEN FALSE
        ELSE IF isMacro(search, query, opts) THEN TRUE
        ELSE IF ~inQuery(query, <<"vue">>) \/ (opts.given /\ blockType(query) \notin opts.types)
        THEN FALSE
        ELSE TRUE

JS_RE_Loose(s) ==
    \E ext \in {<<"j", "s">>, <<"m", "j", "s">>, <<"c", "j", "s">>, <<"t", "s">>,
                 <<"m", "t", "s">>, <<"c", "t", "s">>} :
        endsWith(s, <<".">> \o ext) \/ endsWith(s, <<".">> \o ext \o <<"x">>)

\* line 38: JS_RE.test(s), JS_RE = /\.(?:[cm]?j|t)sx?$/
JS_RE(s) ==
    \E ext \in {<<"j", "s">>, <<"m", "j", "s">>, <<"c", "j", "s">>, <<"t", "s">>} :
        endsWith(s, <<".">> \o ext) \/ endsWith(s, <<".">> \o ext \o <<"x">>)

\* pathe extname: /.(\.[^./]+|\.)$/
extname(pathname) ==
    LET dots == {i \in 2..Len(pathname) :
                    /\ pathname[i] = "."
                    /\ \A j \in (i + 1)..Len(pathname) : pathname[j] \notin {".", "/"}}
    IN  IF dots = {} THEN <<>>
        ELSE SubSeq(pathname, CHOOSE i \in dots : TRUE, Len(pathname))

\* lines 40-44
isJS(path) == JS_RE(parseURL(decodeURIComponent(pathToFileURL(path))).pathname)

\* lines 46-56
getLoader(path) ==
    LET ext == extname(parseURL(decodeURIComponent(pathToFileURL(path))).pathname)
    IN  IF ext = <<".", "vue">> THEN "vue"
        ELSE IF ~JS_RE(ext) THEN "null"
        ELSE IF endsWith(ext, <<"x">>) THEN "tsx" ELSE "ts"

-----------------------------------------------------------------------------
(* createViteLogger *)

LogOps == {"info", "warn", "warnOnce", "error"}
NullMsg == <<"<null>">>
NoError == "none"
NoLine == [type |-> "null", msg |-> NullMsg, repeat |-> 0]

isNoiseAnySourcemap(L, type, msg) ==
    \/ startsWith(msg, <<"Sourcemap">>)
    \/ /\ includes(msg, <<NOTICE>>)
       /\ LET ref == RUNTIME_RESOLVE_REF_RE(trim(msg))
          IN  ref # NoMatch /\ ref # <<>> /\ resolveFromPublicAssets(ref)
    \/ type = "info" /\ ctx[L].hideOutput /\ includes(msg, ctx[L].relativeOutDir)

\* lines 44-54: the message is one of the known noisy ones
isNoise(L, type, msg) ==
    \/ startsWith(msg, <<"Sourcemap">>) /\ includes(msg, <<"node_modules">>)
    \/ /\ includes(msg, <<NOTICE>>)
       /\ LET ref == RUNTIME_RESOLVE_REF_RE(trim(msg))
          IN  ref # NoMatch /\ ref # <<>> /\ resolveFromPublicAssets(ref)
    \/ type = "info" /\ ctx[L].hideOutput /\ includes(msg, ctx[L].relativeOutDir)

\* line 44
filtered(L, type, msg) == ~DEBUG /\ isNoise(L, type, msg)

\* line 56
sameAsLast(m, type, msg) == m.lastType = type /\ m.lastMsg = msg

repeatSuffixOffByOne(count) == count

\* line 76: the N of the suffix ' (xN)'
repeatSuffix(count) == count + 1

\* lines 70-72
addLoggedError(errors, options) ==
    IF options.error # NoError THEN errors \cup {options.error} ELSE errors

\* lines 33-38: _logger.clearScreen('silent')
clear(con) == [con EXCEPT !.cleared = @ + 1]

\* line 39
clearScreen(L, con) == IF ctx[L].canClearScreen THEN clear(con) ELSE con

\* the state a call of logger L reads and writes
Mem(L) ==
    [duplicateCount |-> duplicateCount, lastType |-> lastType, lastMsg |-> lastMsg,
     loggedErrors |-> loggedErrors[L], console |-> console]

\* lines 56-77: the part of output after the filter
emit(m, L, type, msg, options) ==
    LET same == sameAsLast(m, type, msg)
        count == IF same THEN m.duplicateCount + 1 ELSE 0
        con1 == IF same \/ options.clear THEN clearScreen(L, m.console) ELSE m.console
    IN  [duplicateCount |-> count,
         lastType |-> IF same THEN m.lastType ELSE type,
         lastMsg |-> IF same THEN m.lastMsg ELSE msg,
         loggedErrors |-> addLoggedError(m.loggedErrors, options),
         console |-> [con1 EXCEPT
                        !.printed = @ + 1,
                        !.line = [type |-> type, msg |-> msg,
                                  repeat |-> IF same THEN repeatSuffix(count) ELSE 0]]]

outputTrackingFirst(m, L, type, msg, options) ==
    IF filtered(L, type, msg)
    THEN IF sameAsLast(m, type, msg) THEN [m EXCEPT !.duplicateCount = @ + 1]
         ELSE [m EXCEPT !.duplicateCount = 0, !.lastType = type, !.lastMsg = msg]
    ELSE emit(m, L, type, msg, options)

outputLoggingFirst(m, L, type, msg, options) ==
    IF filtered(L, type, msg)
    THEN [m EXCEPT !.loggedErrors = addLoggedError(@, options)]
    ELSE emit(m, L, type, msg, options)

\* lines 43-78
output(m, L, type, msg, options) ==
    IF filtered(L, type, msg) THEN m ELSE emit(m, L, type, msg, options)

alreadyWarnedNever(L, msg) == FALSE

\* line 92
alreadyWarned(L, msg) == msg \in warnedMessages[L]

setHasWarnedDropped(L) == hasWarned

\* lines 88, 93, 98
setHasWarned(L) == [hasWarned EXCEPT ![L] = TRUE]

hasErrorLoggedAnywhere(L, error) == \E K \in DOMAIN loggedErrors : error \in loggedErrors[K]

\* line 105
hasErrorLogged(L, error) == error \in loggedErrors[L]

-----------------------------------------------------------------------------
(* The observer *)

Options == [error : env.errors \cup {NoError}, clear : env.clears]

NoCall == [op |-> "none", logger |-> 0, type |-> "null", msg |-> NullMsg, fresh |-> TRUE,
           reachedOutput |-> FALSE, printed |-> 0, cleared |-> 0]

\* the code's effect m2 of a call, written to the program's variables
Commit(L, m2) ==
    /\ duplicateCount' = m2.duplicateCount
    /\ lastType' = m2.lastType
    /\ lastMsg' = m2.lastMsg
    /\ loggedErrors' = [loggedErrors EXCEPT ![L] = m2.loggedErrors]
    /\ console' = m2.console

\* What the observer notes of a call: op on logger L with (msg, options), which
\* reached output with kind type (or did not: reached = FALSE) and left m2.
\* The observer sees the calls, the prints and the screen clears, never the
\* logger's own variables.
Observe(op, L, type, msg, options, reached, m2) ==
    LET nPrinted == m2.console.printed - console.printed
        pair == [type |-> m2.console.line.type, msg |-> m2.console.line.msg]
        logs == op \in LogOps
    IN
    /\ last' = [op |-> op, logger |-> L, type |-> type, msg |-> msg,
                fresh |-> (op = "warnOnce" => msg \notin hist.onceSeen[L]),
                reachedOutput |-> reached,
                printed |-> nPrinted,
                cleared |-> m2.console.cleared - console.cleared]
    /\ hist' = [calls |-> hist.calls + 1,
                prevEmit |-> IF nPrinted > 0 THEN pair ELSE hist.prevEmit,
                runLen |-> IF nPrinted = 0 THEN hist.runLen
                           ELSE IF hist.prevEmit = pair THEN hist.runLen + 1 ELSE 1,
                runLoggers |-> IF nPrinted = 0 THEN hist.runLoggers
                               ELSE IF hist.prevEmit = pair THEN hist.runLoggers \cup {L}
                               ELSE {L},
                quietInRun |-> IF nPrinted > 0
                               THEN (IF hist.prevEmit = pair THEN hist.quietInRun ELSE 0)
                               ELSE IF reached THEN hist.quietInRun + 1 ELSE hist.quietInRun,
                outputs |-> IF reached THEN hist.outputs + 1 ELSE hist.outputs,
                passedErrors |-> IF logs /\ options.error # NoError
                                 THEN [hist.passedErrors EXCEPT ![L] = @ \cup {options.error}]
                                 ELSE hist.passedErrors,
                emittedErrors |-> IF logs /\ options.error # NoError /\ nPrinted > 0
                                  THEN [hist.emittedErrors EXCEPT ![L] = @ \cup {options.error}]
                                  ELSE hist.emittedErrors,
                onceSeen |-> IF op = "warnOnce"
                             THEN [hist.onceSeen EXCEPT ![L] = @ \cup {msg}]
                             ELSE hist.onceSeen,
                warnCalled |-> IF op \in {"warn", "warnOnce", "error"}
                               THEN [hist.warnCalled EXCEPT ![L] = TRUE]
                               ELSE hist.warnCalled]

CanCall == hist.calls < env.limit /\ UNCHANGED classifierVars

-----------------------------------------------------------------------------
(* The methods of viteLogger, lines 82-107 *)

Info(L, msg, options) ==
    /\ CanCall
    /\ LET m2 == output(Mem(L), L, "info", msg, options)
       IN  Commit(L, m2) /\ Observe("info", L, "info", msg, options, TRUE, m2)
    /\ UNCHANGED <<env, DEBUG, ctx, warnedMessages, hasWarned, answer>>

Warn(L, msg, options) ==
    /\ CanCall
    /\ hasWarned' = setHasWarned(L)
    /\ LET m2 == output(Mem(L), L, "warn", msg, options)
       IN  Commit(L, m2) /\ Observe("warn", L, "warn", msg, options, TRUE, m2)
    /\ UNCHANGED <<env, DEBUG, ctx, warnedMessages, answer>>

WarnOnce(L, msg, options) ==
    /\ CanCall
    /\ IF alreadyWarned(L, msg)
       THEN /\ Commit(L, Mem(L))
            /\ Observe("warnOnce", L, "warn", msg, options, FALSE, Mem(L))
            /\ UNCHANGED <<hasWarned, warnedMessages>>
       ELSE /\ hasWarned' = setHasWarned(L)
            /\ LET m2 == output(Mem(L), L, "warn", msg, options)
               IN  Commit(L, m2) /\ Observe("warnOnce", L, "warn", msg, options, TRUE, m2)
            /\ warnedMessages' = [warnedMessages EXCEPT ![L] = @ \cup {msg}]
    /\ UNCHANGED <<env, DEBUG, ctx, answer>>

Error(L, msg, options) ==
    /\ CanCall
    /\ hasWarned' = setHasWarned(L)
    /\ LET m2 == output(Mem(L), L, "error", msg, options)
       IN  Commit(L, m2) /\ Observe("error", L, "error", msg, options, TRUE, m2)
    /\ UNCHANGED <<env, DEBUG, ctx, warnedMessages, answer>>

ClearScreen(L) ==
    /\ CanCall
    /\ LET m2 == [Mem(L) EXCEPT !.console = clear(@)]
       IN  /\ Commit(L, m2)
           /\ Observe("clearScreen", L, "null", NullMsg,
                      [error |-> NoError, clear |-> FALSE], FALSE, m2)
    /\ UNCHANGED <<env, DEBUG, ctx, warnedMessages, hasWarned, answer>>

HasErrorLogged(L, error) ==
    /\ CanCall
    /\ answer' = [error |-> error, logged |-> hasErrorLogged(L, error)]
    /\ Commit(L, Mem(L))
    /\ Observe("hasErrorLogged", L, "null", NullMsg,
               [error |-> error, clear |-> FALSE], FALSE, Mem(L))
    /\ UNCHANGED <<env, DEBUG, ctx, warnedMessages, hasWarned>>

-----------------------------------------------------------------------------
(* Specifications *)

Loggers == 1..MaxLoggers

MsgReady == <<"ready">>
MsgSourcemap == <<"Sourcemap", SP, "node_modules">>
MsgBuilt == <<"dist", "/entry.js">>

MsgPool == {MsgReady, MsgSourcemap, MsgBuilt}

Errors == {"e1", "e2"}

RelativeOutDirs == {<<"dist">>}

Contexts == [hideOutput : BOOLEAN, canClearScreen : BOOLEAN, relativeOutDir : RelativeOutDirs]

\* the state after createViteLogger has returned each logger of env
InitLoggers ==
    /\ duplicateCount = 0
    /\ lastType = "null"
    /\ lastMsg = NullMsg
    /\ loggedErrors = [L \in env.loggers |-> {}]
    /\ warnedMessages = [L \in env.loggers |-> {}]
    /\ hasWarned = [L \in env.loggers |-> FALSE]
    /\ console = [printed |-> 0, line |-> NoLine, cleared |-> 0]
    /\ last = NoCall
    /\ hist = [calls |-> 0,
               prevEmit |-> [type |-> "null", msg |-> NullMsg],
               runLen |-> 0,
               runLoggers |-> {},
               quietInRun |-> 0,
               outputs |-> 0,
               passedErrors |-> [L \in env.loggers |-> {}],
               emittedErrors |-> [L \in env.loggers |-> {}],
               onceSeen |-> [L \in env.loggers |-> {}],
               warnCalled |-> [L \in env.loggers |-> FALSE]]
    /\ answer = [error |-> NoError, logged |-> FALSE]

NoRet == [called |-> {}, opts |-> NoType, isVue |-> FALSE, isJS |-> FALSE,
          getLoader |-> "null"]

\* no module id is being classified
InitNoId ==
    /\ src = [kind |-> "none"]
    /\ moduleId = <<>>
    /\ ret = NoRet

Unlogged == "e0"

Next ==
    \/ \E L \in env.loggers, msg \in env.msgs, options \in Options : Info(L, msg, options)
    \/ \E L \in env.loggers, msg \in env.msgs, options \in Options : Warn(L, msg, options)
    \/ \E L \in env.loggers, msg \in env.msgs, options \in Options : WarnOnce(L, msg, options)
    \/ \E L \in env.loggers, msg \in env.msgs, options \in Options : Error(L, msg, options)
    \/ \E L \in env.loggers : ClearScreen(L)
    \/ \E L \in env.loggers, error \in env.errors \cup {Unlogged} : HasErrorLogged(L, error)

\* one logger, every kind of call
Init ==
    /\ env = [loggers |-> {1}, msgs |-> MsgPool, errors |-> Errors,
              clears |-> BOOLEAN, limit |-> MaxCalls]
    /\ DEBUG \in BOOLEAN
    /\ ctx \in [env.loggers -> Contexts]
    /\ InitLoggers
    /\ InitNoId

Spec == Init /\ [][Next]_vars

\* several loggers of one process
InitShared ==
    /\ env = [loggers |-> Loggers, msgs |-> {MsgReady, MsgBuilt}, errors |-> {"e1"},
              clears |-> {FALSE}, limit |-> MaxCalls]
    /\ DEBUG = FALSE
    /\ ctx \in [env.loggers -> [hideOutput : BOOLEAN, canClearScreen : {TRUE},
                                 relativeOutDir : RelativeOutDirs]]
    /\ InitLoggers
    /\ InitNoId

SpecShared == InitShared /\ [][Next]_vars

\* one logger and one message text per run, the text drawn from every short
\* sequence of ShortTokens and from LongMsgs
ShortTokens == {"Sourcemap", "node_modules", NOTICE, REF, "/pub.png", "/src.png", "dist"}

LongMsgs ==
    {<<"Sourcemap", SP, "for", SP, "node_modules", "/x.js", SP, "is", SP, "missing">>,
     <<"warning", SP, "Sourcemap", SP, "node_modules">>,
     <<"/pub.png", REF, SP, "/a.css", SP, NOTICE>>,
     <<"/src.png", REF, SP, "/a.css", SP, NOTICE>>,
     <<NL, SP, "/pub.png", REF, SP, "/a.css", SP, NOTICE, NL>>,
     <<"warning", SP, "/pub.png", REF, SP, "/a.css", SP, NOTICE>>,
     <<"warning", NL, "/pub.png", REF, SP, "/a.css", SP, NOTICE>>,
     <<"warning", SP, "x", NL, "/pub.png", REF, SP, "/a.css", SP, NOTICE>>,
     <<"/src.png", REF, SP, "x", NL, "/pub.png", REF, SP, "/a.css", SP, NOTICE>>,
     <<"dist", "/entry.js", SP, "1.2", SP, "kB">>,
     <<"ready">>}

InitFilter ==
    /\ \E msg \in SeqsUpTo(ShortTokens, MaxMsgLen) \cup LongMsgs :
          env = [loggers |-> {1}, msgs |-> {msg}, errors |-> {},
                 clears |-> {FALSE}, limit |-> MaxFilterCalls]
    /\ DEBUG \in BOOLEAN
    /\ ctx \in [env.loggers -> [hideOutput : BOOLEAN, canClearScreen : {FALSE},
                                 relativeOutDir : {<<"dist">>, <<>>}]]
    /\ InitLoggers
    /\ InitNoId

SpecFilter == InitFilter /\ [][Next]_vars

-----------------------------------------------------------------------------
(* The classifiers applied to module ids *)

\* no logger has been created
InitNoLogger ==
    /\ env = [loggers |-> {}, msgs |-> {}, errors |-> {}, clears |-> {}, limit |-> 0]
    /\ DEBUG = FALSE
    /\ ctx = <<>>
    /\ InitLoggers

\* the query parameters vite and nuxt append to ids, with and without values
Params ==
    {<<"vue">>,
     <<"type", "=", "style">>, <<"type", "=", "script">>, <<"type", "=", "template">>,
     <<"type">>,
     <<"setup">>,
     <<"macro", "=", "true">>, <<"macro">>,
     <<"nuxt_component", "=", "async">>, <<"nuxt_component">>, <<"nuxt_component", "=">>,
     <<"raw">>}

VuePaths == {<<"/", "src", "/", "app", ".", "vue">>, <<"/", "src", "/", "app", ".", "t", "s">>}

Hashes == {<<>>, <<"#", "x">>}

OptTypes ==
    {NoType} \cup {OfTypes(types) : types \in {{}, {<<"script">>}, {<<"style">>},
                                                {<<"template">>},
                                                {<<"template">>, <<"style">>}}}

\* an id put together from a path, an optional query string and an optional hash
VueId(s) ==
    s.path \o (IF s.hasQuery THEN <<"?">> \o Join(s.params, "&") ELSE <<>>) \o s.hash

InitVue ==
    /\ InitNoLogger
    /\ \E path \in VuePaths, hasQuery \in BOOLEAN, hash \in Hashes,
          params \in SeqsUpTo(Params, MaxParams) :
          /\ hasQuery \/ params = <<>>
          /\ src = [kind |-> "vue", path |-> path, hasQuery |-> hasQuery,
                    params |-> params, hash |-> hash]
    /\ moduleId = VueId(src)
    /\ ret = NoRet

IsVue(opts) ==
    /\ src.kind = "vue"
    /\ "isVue" \notin ret.called
    /\ ret' = [ret EXCEPT !.called = @ \cup {"isVue"}, !.opts = opts,
                          !.isVue = isVue(moduleId, opts)]
    /\ UNCHANGED <<loggerVars, src, moduleId>>

NextVue == \E opts \in OptTypes : IsVue(opts)

SpecVue == InitVue /\ [][NextVue]_vars

ExtLetters == {"c", "m", "j", "t", "s", "x", "vue"}

\* where the file name stands: the path before it and what follows the path
Frames ==
    {[stem |-> <<"/", "src", "/", "a">>, suffix |-> <<>>],
     [stem |-> <<"a">>, suffix |-> <<>>],
     [stem |-> <<"/", "src", "/", "a", ".", "d">>, suffix |-> <<>>],
     [stem |-> <<"/", "src", "/">>, suffix |-> <<>>],
     [stem |-> <<"/", "src", "/", "a">>, suffix |-> <<"?", "vue", "&", "lang", ".", "t", "s">>],
     [stem |-> <<"/", "src", "/", "a">>, suffix |-> <<"#", "x", ".", "j", "s">>]}

\* an id put together from a stem, an optional dot, letters and a suffix
LoaderId(s) == s.stem \o (IF s.hasDot THEN <<".">> ELSE <<>>) \o s.letters \o s.suffix

InitLoader ==
    /\ InitNoLogger
    /\ \E frame \in Frames, hasDot \in BOOLEAN, letters \in SeqsUpTo(ExtLetters, MaxExtLen) :
          src = [kind |-> "loader", stem |-> frame.stem, hasDot |-> hasDot,
                 letters |-> letters, suffix |-> frame.suffix]
    /\ moduleId = LoaderId(src)
    /\ ret = NoRet

IsJS ==
    /\ src.kind = "loader"
    /\ "isJS" \notin ret.called
    /\ ret' = [ret EXCEPT !.called = @ \cup {"isJS"}, !.isJS = isJS(moduleId)]
    /\ UNCHANGED <<loggerVars, src, moduleId>>

GetLoader ==
    /\ src.kind = "loader"
    /\ "getLoader" \notin ret.called
    /\ ret' = [ret EXCEPT !.called = @ \cup {"getLoader"}, !.getLoader = getLoader(moduleId)]
    /\ UNCHANGED <<loggerVars, src, moduleId>>

NextLoader == IsJS \/ GetLoader

SpecLoader == InitLoader /\ [][NextLoader]_vars

-----------------------------------------------------------------------------
(* Claims about the logger *)

SuffixOfRun(n) == IF n >= 2 THEN n ELSE 0

\* C1: the k-th consecutive emission of one (kind, text) pair is rendered with
\* the suffix (xk) for k >= 2 and with no suffix for k = 1, the repeat counter
\* is k - 1 (one more per repeat, 0 after a different pair), and the tracked
\* pair is the pair emitted last.
C1_RepeatSuffix ==
    console.printed > 0 =>
        /\ lastType = hist.prevEmit.type
        /\ lastMsg = hist.prevEmit.msg
        /\ duplicateCount = hist.runLen - 1
        /\ console.line = [type |-> hist.prevEmit.type, msg |-> hist.prevEmit.msg,
                           repeat |-> SuffixOfRun(hist.runLen)]

C1_Witness == hist.runLen = 3 /\ console.line.repeat = 3 /\ duplicateCount = 2

\* C2: a warnOnce call whose text an earlier warnOnce call on the logger was
\* given prints nothing, clears nothing and leaves the tracked pair and the
\* counter alone; the first warnOnce call with a text reaches output with
\* kind 'warn'.
C2_WarnOnce ==
    [][last'.op = "warnOnce" =>
          IF last'.msg \in hist.onceSeen[last'.logger]
          THEN /\ ~last'.reachedOutput
               /\ console' = console
               /\ <<lastType, lastMsg, duplicateCount>>' = <<lastType, lastMsg, duplicateCount>>
          ELSE last'.reachedOutput /\ last'.type = "warn"]_vars

C2_Witness ==
    /\ last.op = "warnOnce" /\ ~last.fresh /\ ~last.reachedOutput
    /\ console.printed = 1 /\ console.line.type = "warn" /\ console.line.msg = last.msg

\* C3 as stated: every error object passed with a logging call is remembered.
C3_EveryPassedErrorLogged ==
    \A L \in env.loggers : \A e \in hist.passedErrors[L] : hasErrorLogged(L, e)

\* C3: hasErrorLogged(e) is true exactly for the error objects passed with a
\* call that was emitted (printed), and stays true; it is false for an object
\* never passed to the logger.
C3_EmittedErrorLogged ==
    /\ \A L \in env.loggers : \A e \in env.errors \cup {Unlogged} :
          /\ hasErrorLogged(L, e) <=> e \in hist.emittedErrors[L]
          /\ e \notin hist.passedErrors[L] => ~hasErrorLogged(L, e)
    /\ last.op = "hasErrorLogged" =>
          (answer.logged <=> answer.error \in hist.emittedErrors[last.logger])

C3_Witness ==
    /\ last.op = "hasErrorLogged" /\ answer.logged
    /\ \E e \in hist.passedErrors[1] : ~hasErrorLogged(1, e)

\* the known noisy patterns (a), (b) and (c) of C4
KnownNoisy(L, type, msg) ==
    \/ startsWith(msg, <<"Sourcemap">>) /\ includes(msg, <<"node_modules">>)
    \/ /\ includes(msg, <<NOTICE>>)
       /\ RUNTIME_RESOLVE_REF_RE(trim(msg)) \in PublicAssets
    \/ type = "info" /\ ctx[L].hideOutput /\ includes(msg, ctx[L].relativeOutDir)

ExpectedPrints(L, type, msg) == IF ~DEBUG /\ KnownNoisy(L, type, msg) THEN 0 ELSE 1

\* C4 as stated: every logging call is printed exactly once unless DEBUG is
\* unset and its text matches a known noisy pattern, and then never.
C4_EveryCallFiltered ==
    last.op \in LogOps => last.printed = ExpectedPrints(last.logger, last.type, last.msg)

\* C4: the same, for every logging call but a warnOnce call whose text an
\* earlier warnOnce call on the logger was given.
C4_FreshCallFiltered ==
    (last.op \in LogOps /\ last.fresh) =>
        last.printed = ExpectedPrints(last.logger, last.type, last.msg)

C4_Witness ==
    /\ last.op = "warn" /\ last.printed = 0 /\ ~DEBUG
    /\ includes(last.msg, <<NOTICE>>) /\ ~startsWith(last.msg, <<"Sourcemap">>)

\* C8: a call that reaches output and is suppressed there leaves the tracked
\* pair, the repeat counter, the logged errors, the prints and the screen
\* clears as they were.
C8_SuppressedFrame ==
    [][(last'.reachedOutput /\ last'.printed = 0) =>
          /\ <<lastType, lastMsg, duplicateCount>>' = <<lastType, lastMsg, duplicateCount>>
          /\ loggedErrors' = loggedErrors
          /\ console' = console]_vars

\* emit(A), suppressed(B), emit(A): the second A is rendered with (x2)
C8_Witness ==
    /\ hist.runLen = 2 /\ hist.quietInRun = 1 /\ hist.outputs = 3
    /\ last.printed = 1 /\ console.line.repeat = 2

\* C9: the run of identical emissions is counted across the loggers, and each
\* logger has a warnOnce memory and a logged-error set of its own.
C9_SharedAndOwn ==
    /\ console.printed > 0 =>
          /\ <<lastType, lastMsg>> = <<hist.prevEmit.type, hist.prevEmit.msg>>
          /\ duplicateCount = hist.runLen - 1
          /\ console.line.repeat = SuffixOfRun(hist.runLen)
    /\ \A L \in env.loggers :
          /\ warnedMessages[L] = hist.onceSeen[L]
          /\ \A e \in env.errors : hasErrorLogged(L, e) <=> e \in hist.emittedErrors[L]
    /\ (last.op = "warnOnce" /\ last.fresh) => last.reachedOutput

\* logger 1 emitted a warning through warnOnce with an error, logger 2 then
\* emitted the same text through warnOnce, shown as a repeat, and has not
\* logged the error
C9_Witness ==
    /\ hist.runLoggers = {1, 2} /\ console.line.repeat = 2
    /\ last.op = "warnOnce" /\ last.logger = 2 /\ last.msg \in hist.onceSeen[1]
    /\ last.printed = 1
    /\ \E e \in env.errors : hasErrorLogged(1, e) /\ ~hasErrorLogged(2, e)

\* C10: hasWarned is true exactly when warn, warnOnce or error was called on
\* the logger, and a logger with a warnOnce memory has warned.
C10_HasWarned ==
    \A L \in env.loggers :
        /\ hasWarned[L] <=> hist.warnCalled[L]
        /\ warnedMessages[L] # {} => hasWarned[L]

\* a warning that the filter suppressed still sets the flag
C10_Witness ==
    /\ hasWarned[1] /\ console.printed = 0 /\ hist.outputs > 0
    /\ last.op = "warn" /\ last.reachedOutput

-----------------------------------------------------------------------------
(* Claims about the classifiers *)

\* the key of a parameter as it was written into the id
KeyOf(param) == param[1]
\* the value written after the key's '=' (none: the empty string)
ValueOf(param) == SubSeq(param, 3, Len(param))

Carries(key) == \E i \in 1..Len(src.params) : KeyOf(src.params[i]) = key

CarriesValue(key) ==
    \E i \in 1..Len(src.params) : KeyOf(src.params[i]) = key /\ ValueOf(src.params[i]) # <<>>

\* 'script' with a setup key, otherwise the value of the type parameter; a
\* type given several times or not at all is none of the sub-block types
SubBlockOf(params) ==
    LET at == {i \in 1..Len(params) : KeyOf(params[i]) = "type"}
    IN  IF \E i \in 1..Len(params) : KeyOf(params[i]) = "setup" THEN <<"script">>
        ELSE IF Cardinality(at) = 1 THEN ValueOf(params[CHOOSE i \in at : TRUE])
        ELSE Undefined

\* C5: for an id with a query string that has no nuxt_component and no macro
\* parameter, isVue is true exactly when the query has the vue marker and
\* opts.type is absent or holds the sub-block type.
C5_SubBlock ==
    ("isVue" \in ret.called /\ src.hasQuery
        /\ ~Carries("nuxt_component") /\ ~Carries("macro")) =>
        (ret.isVue <=>
            (Carries("vue") /\ (~ret.opts.given \/ SubBlockOf(src.params) \in ret.opts.types)))

\* ?vue&setup&type=style asked for as a script block: setup decides
C5_Witness ==
    /\ "isVue" \in ret.called /\ ret.isVue
    /\ Carries("vue") /\ Carries("setup") /\ ~Carries("macro") /\ ~Carries("nuxt_component")
    /\ \E i \in 1..Len(src.params) : src.params[i] = <<"type", "=", "style">>
    /\ ret.opts = OfTypes({<<"script">>})

NoQuery == ~src.hasQuery

\* C6 as stated: a bare .vue id is a component for every opts, an id whose
\* query carries a nuxt_component parameter never is, and an id without a
\* query string that does not end in .vue is not.
C6_WrapperNeverVue ==
    "isVue" \in ret.called =>
        /\ (NoQuery /\ endsWith(moduleId, <<".", "vue">>)) => ret.isVue
        /\ Carries("nuxt_component") => ~ret.isVue
        /\ (NoQuery /\ ~endsWith(moduleId, <<".", "vue">>)) => ~ret.isVue

\* C6: the same, the second part for an id whose query carries a
\* nuxt_component parameter with a non-empty value.
C6_WrapperWithValueNeverVue ==
    "isVue" \in ret.called =>
        /\ (NoQuery /\ endsWith(moduleId, <<".", "vue">>)) => ret.isVue
        /\ CarriesValue("nuxt_component") => ~ret.isVue
        /\ (NoQuery /\ ~endsWith(moduleId, <<".", "vue">>)) => ~ret.isVue

\* app.vue?nuxt_component=async with the vue marker and a macro parameter
C6_Witness ==
    /\ "isVue" \in ret.called /\ ~ret.isVue
    /\ endsWith(src.path, <<".", "vue">>)
    /\ CarriesValue("nuxt_component") /\ Carries("vue") /\ CarriesValue("macro")
    /\ ~ret.opts.given

\* the extension of the id's path: the last dot of the file name and the
\* letters after it
StemExt(stem) ==
    LET name == Split(stem, "/")[Len(Split(stem, "/"))]
        parts == Split(name, ".")
    IN  IF Len(parts) = 1 THEN <<>> ELSE <<".">> \o parts[Len(parts)]

\* the file name has characters before its extension
HasStem(s) ==
    LET name == Split(s.stem, "/")[Len(Split(s.stem, "/"))]
    IN  IF s.hasDot THEN name # <<>> ELSE Len(Split(name, ".")) > 1 /\ Split(name, ".")[1] # <<>>

Extension(s) ==
    IF s.hasDot THEN <<".">> \o s.letters
    ELSE IF StemExt(s.stem) = <<>> THEN <<>> ELSE StemExt(s.stem) \o s.letters

LoaderOf(ext) ==
    CASE ext = <<".", "vue">> -> "vue"
      [] ext \in {<<".", "j", "s", "x">>, <<".", "t", "s", "x">>,
                  <<".", "m", "j", "s", "x">>, <<".", "c", "j", "s", "x">>} -> "tsx"
      [] ext \in {<<".", "j", "s">>, <<".", "m", "j", "s">>, <<".", "c", "j", "s">>,
                  <<".", "t", "s">>} -> "ts"
      [] OTHER -> "null"

\* C7: getLoader maps the extension of the path to vue, tsx, ts or null, isJS
\* is true exactly for the script-like extensions, and for an id with a
\* non-empty file stem isJS holds iff getLoader is ts or tsx.
C7_Loader ==
    /\ "getLoader" \in ret.called => ret.getLoader = LoaderOf(Extension(src))
    /\ "isJS" \in ret.called => (ret.isJS <=> LoaderOf(Extension(src)) \in {"ts", "tsx"})
    /\ (ret.called = {"isJS", "getLoader"} /\ HasStem(src)) =>
          (ret.isJS <=> ret.getLoader \in {"ts", "tsx"})

\* a.mjsx followed by a query string that ends in .ts
C7_Witness ==
    /\ ret.called = {"isJS", "getLoader"} /\ ret.isJS /\ ret.getLoader = "tsx"
    /\ src.letters = <<"m", "j", "s", "x">> /\ src.hasDot /\ src.suffix # <<>>

====
